---- MODULE Spec2Model ----
(***************************************************************************)
(* Model of esp-wmata-pids:                                                *)
(*   - the connection supervisor task manage_connection and its backoff    *)
(*     function reconnect_backoff_ms (src/src/bin/main.rs);                *)
(*   - the two configuration records WmataConfig (src/src/config.rs) and   *)
(*     Config (src/src/wmata/config.rs) with new/to_bytes/from_bytes/      *)
(*     save/load and the string accessors.                                 *)
(*   - main: boot, the spawn of the tasks, the bring-up polls of link and  *)
(*     address and the poll loop (src/src/bin/main.rs).                    *)
(***************************************************************************)
EXTENDS Integers, Sequences, FiniteSets, TLC

VARIABLES
    \* ---- supervisor (main.rs) ----
    sta_state,      \* esp_radio::wifi::sta_state(): the radio's global station state
    ev_disc,        \* pending StaDisconnected event of the radio driver
    pc,             \* position of the manage_connection task
    arm,            \* match arm taken in the current loop iteration
    outcome,        \* result of the radio call of the current iteration
    num_failures,   \* let mut num_failures = 0u32
    delay_ms,       \* delay_ms of the last evaluation of line 218
    panic_at,       \* where the task panicked ("none" while running)
    build,          \* overflow-checks on ("debug") or off ("release")
    reliable,       \* the radio collaborator never returns an error
    iters,          \* completed loop iterations (saturating at MaxIters)
    connected_once, \* connect_async has returned Ok at least once
    reset_after_backoff, \* line 195 last reset a counter that was >= 3
    calls,          \* the last CallWindow calls made on the controller, oldest first
    drops,          \* losses of the association so far (saturating at MaxDrops)
    \* ---- configuration store (config.rs, wmata/config.rs) ----
    impl,           \* "WmataConfig" or "Config"
    LEN,            \* config.rs:6, size_of::<WmataConfig>() of the build
    cfg,            \* the record in memory (NoRec when none)
    flash,          \* the CONFIG_SZ bytes at the reserved flash offset
    res,            \* last operation and its result
    written,        \* record whose save produced the flash content (NoRec otherwise)
    flips,          \* bit flips applied to the block since it was saved
    \* ---- main (main.rs:49-154) and the network stack it polls ----
    main_pc,        \* position of main
    env,            \* which of SSID, PASSWORD, API_KEY were set at compile time
    sup_args,       \* credentials manage_connection was spawned with ("none" before)
    net_spawned,    \* net_task has been spawned
    link_up,        \* stack.is_link_up()
    v4,             \* stack.config_v4() is Some
    ip,             \* the local `ip` of main is Some
    slept_ms,       \* duration of the last Timer main awaited
    trains          \* result of the last next_trains request

supVars == <<sta_state, ev_disc, pc, arm, outcome, num_failures, delay_ms, panic_at,
             build, reliable, iters, connected_once, reset_after_backoff, calls, drops>>
cfgVars == <<impl, LEN, cfg, flash, res, written, flips>>
mainVars == <<main_pc, env, sup_args, net_spawned, link_up, v4, ip, slept_ms, trains>>
vars == <<supVars, cfgVars, mainVars>>

\* ---------------------------------------------------------------- bounds
\* largest failure count the model lets the counter reach
MaxFailures == 68
\* the iteration counter saturates here
MaxIters == 3
\* number of controller calls the call history keeps
CallWindow == 4
\* the count of lost associations saturates here
MaxDrops == 2

\* ------------------------------------------------------- program constants
\* size_of::<WmataConfig>() (config.rs:6): 136 according to the comment of
\* that line; 152 for the #[repr(C)] struct as declared on the 32-bit target
\* (four u8, three heapless strings that each keep a usize length in front of
\* their buffer, and an Option<u32>)
LenInComment == 136
LenReprC == 4 + (4 + 32) + (4 + 64) + (4 + 32) + 8

DELAY_MAX_MS == 10000
BackoffBaseMs == 500
BackoffFreeFailures == 3
U64Bits == 64

Min(a, b) == IF a <= b THEN a ELSE b

\* ------------------------------------------------------------------------
\* u64 arithmetic of reconnect_backoff_ms, on four 16-bit limbs (little
\* endian), so that shifts and products keep the width of a u64.
\* ------------------------------------------------------------------------
LimbBase == 2 ^ 16
NLimbs == U64Bits \div 16

\* 1u64 << n for 0 <= n < 64
U64Shl1(n) == [i \in 1..NLimbs |-> IF i = (n \div 16) + 1 THEN 2 ^ (n % 16) ELSE 0]

RECURSIVE MulCarry(_, _, _)
\* carry into limb i of k * x
MulCarry(k, x, i) == IF i = 1 THEN 0 ELSE (k * x[i - 1] + MulCarry(k, x, i - 1)) \div LimbBase

\* k * x: the wrapped product and whether it overflowed 64 bits
U64MulSmall(k, x) ==
    [val |-> [i \in 1..NLimbs |-> (k * x[i] + MulCarry(k, x, i)) % LimbBase],
     overflow |-> MulCarry(k, x, NLimbs + 1) > 0]

\* x.min(m) for a small m
U64MinSmall(x, m) == IF (\A i \in 2..NLimbs : x[i] = 0) /\ x[1] <= m THEN x[1] ELSE m

\* fn reconnect_backoff_ms(failures: u32) -> u64, for the build b.
\* With overflow checks a shift by >= 64 and an overflowing product panic;
\* without them the shift amount is masked to 6 bits and the product wraps.
BackoffOf(b, failures) ==
    IF failures < BackoffFreeFailures THEN [panic |-> FALSE, ms |-> 0]
    ELSE LET sh == failures - BackoffFreeFailures
             step == U64Shl1(sh % U64Bits)
             prod == U64MulSmall(BackoffBaseMs, step)
         IN IF b = "debug" /\ (sh >= U64Bits \/ prod.overflow)
            THEN [panic |-> TRUE, ms |-> 0]
            ELSE [panic |-> FALSE, ms |-> U64MinSmall(prod.val, DELAY_MAX_MS)]

reconnect_backoff_ms(failures) == BackoffOf(build, failures)

\* a u32 as its two 16-bit halves, <<high, low>>
U32Halves(n) == <<n \div LimbBase, n % LimbBase>>

\* an addition of 1 that wraps around at u32::MAX
U32WrappingAdd1(h) ==
    IF h[2] < LimbBase - 1 THEN <<h[1], h[2] + 1>>
    ELSE IF h[1] < LimbBase - 1 THEN <<h[1] + 1, 0>>
    ELSE <<0, 0>>

\* u32::saturating_add(self, 1) on the halves: u32::MAX stays, every other
\* value grows by one
U32SaturatingAdd1(h) ==
    IF h[2] < LimbBase - 1 THEN <<h[1], h[2] + 1>>
    ELSE IF h[1] < LimbBase - 1 THEN <<h[1] + 1, 0>>
    ELSE h

\* num_failures.saturating_add(1) (main.rs:191)
saturating_add1(n) ==
    LET r == U32SaturatingAdd1(U32Halves(n)) IN r[1] * LimbBase + r[2]

\* ------------------------------------------------------------------------
\* Bytes, CRC-32 (crc32fast::hash) and UTF-8 validation (core::str::from_utf8)
\* ------------------------------------------------------------------------
Byte == 0..255

RECURSIVE BitXor(_, _)
BitXor(a, b) ==
    IF a = 0 THEN b
    ELSE IF b = 0 THEN a
    ELSE ((a + b) % 2) + 2 * BitXor(a \div 2, b \div 2)

XorByteTable == [a \in Byte |-> [b \in Byte |-> BitXor(a, b)]]
Xor8(a, b) == XorByteTable[a][b]

\* a 32-bit value is kept as its four little-endian bytes
CrcPoly == <<32, 131, 184, 237>>   \* 0xEDB88320, the reflected IEEE polynomial
Xor32(x, y) == [i \in 1..4 |-> Xor8(x[i], y[i])]
Shr1(x) == [i \in 1..4 |-> (x[i] \div 2) + (IF i < 4 THEN (x[i + 1] % 2) * 128 ELSE 0)]

RECURSIVE CrcEntry(_, _)
CrcEntry(c, k) ==
    IF k = 0 THEN c
    ELSE CrcEntry(IF c[1] % 2 = 1 THEN Xor32(Shr1(c), CrcPoly) ELSE Shr1(c), k - 1)

CrcTable == [n \in Byte |-> CrcEntry(<<n, 0, 0, 0>>, 8)]

\* one byte d folded into the running remainder c
CrcStep(c, d) ==
    LET t == CrcTable[Xor8(c[1], d)]
    IN <<Xor8(t[1], c[2]), Xor8(t[2], c[3]), Xor8(t[3], c[4]), t[4]>>

RECURSIVE CrcFold(_, _, _, _)
\* the bytes lo..hi folded into c. The range is split in halves and the left
\* half is evaluated before the right one is entered, which keeps the
\* evaluation depth logarithmic.
CrcFold(c, bytes, lo, hi) ==
    IF lo > hi THEN c
    ELSE IF lo = hi THEN CrcStep(c, bytes[lo])
    ELSE LET mid == (lo + hi) \div 2
             left == CrcFold(c, bytes, lo, mid)
         IN IF left[1] \in Byte THEN CrcFold(left, bytes, mid + 1, hi) ELSE left

\* a CRC-32 without the initial and final inversion
Crc32Le_NoInversion(bytes) == CrcFold(<<0, 0, 0, 0>>, bytes, 1, Len(bytes))

\* crc32fast::hash(bytes).to_le_bytes()
Crc32Le(bytes) ==
    LET c == CrcFold(<<255, 255, 255, 255>>, bytes, 1, Len(bytes))
    IN [i \in 1..4 |-> 255 - c[i]]

IsCont(b) == b >= 128 /\ b <= 191

RECURSIVE Utf8From(_, _)
\* core::str::from_utf8(bytes).is_ok(), scanning from index i
Utf8From(bytes, i) ==
    LET n == Len(bytes)
        b == bytes[i]
        has(k) == i + k <= n
        c(k) == bytes[i + k]
    IN IF i > n THEN TRUE
       ELSE IF b < 128 THEN Utf8From(bytes, i + 1)
       ELSE IF b >= 194 /\ b <= 223
            THEN has(1) /\ IsCont(c(1)) /\ Utf8From(bytes, i + 2)
       ELSE IF b >= 224 /\ b <= 239
            THEN /\ has(2)
                 /\ CASE b = 224 -> c(1) >= 160 /\ c(1) <= 191
                      [] b = 237 -> c(1) >= 128 /\ c(1) <= 159
                      [] OTHER -> IsCont(c(1))
                 /\ IsCont(c(2))
                 /\ Utf8From(bytes, i + 3)
       ELSE IF b >= 240 /\ b <= 244
            THEN /\ has(3)
                 /\ CASE b = 240 -> c(1) >= 144 /\ c(1) <= 191
                      [] b = 244 -> c(1) >= 128 /\ c(1) <= 143
                      [] OTHER -> IsCont(c(1))
                 /\ IsCont(c(2))
                 /\ IsCont(c(3))
                 /\ Utf8From(bytes, i + 4)
       ELSE FALSE

Utf8Valid(bytes) == Utf8From(bytes, 1)

Zeros(n) == [i \in 1..n |-> 0]
Rep(b, n) == [i \in 1..n |-> b]

\* ------------------------------------------------------------------------
\* manage_connection (main.rs:156-224)
\* ------------------------------------------------------------------------
\* the call history after one more call on the controller
Logged(c) == IF Len(calls) < CallWindow THEN Append(calls, c) ELSE Append(Tail(calls), c)

StaStates == {"Invalid", "Stopped", "Started", "Connected", "Disconnected"}

Panic(where) ==
    /\ pc' = "panicked"
    /\ panic_at' = where

\* controller.set_config(&client_config).expect(..) before the loop (175-177)
SetConfigInitOk ==
    /\ pc = "set_config_init"
    /\ pc' = "loop"
    /\ UNCHANGED <<sta_state, ev_disc, arm, outcome, num_failures, delay_ms, panic_at,
                   build, reliable, iters, connected_once, reset_after_backoff>>
    /\ calls' = Logged("set_config")
    /\ UNCHANGED drops
    /\ UNCHANGED <<cfgVars, mainVars>>

SetConfigInitErr ==
    /\ pc = "set_config_init"
    /\ ~reliable
    /\ Panic("set_config_init")
    /\ UNCHANGED <<sta_state, ev_disc, arm, outcome, num_failures, delay_ms,
                   build, reliable, iters, connected_once, reset_after_backoff>>
    /\ calls' = Logged("set_config")
    /\ UNCHANGED drops
    /\ UNCHANGED <<cfgVars, mainVars>>

\* the arm `match esp_radio::wifi::sta_state()` selects (186, 187, 194, 198, 210)
ArmOf(s) ==
    CASE s = "Started" -> "connect"
      [] s = "Connected" -> "connected"
      [] s = "Disconnected" -> "disconnect"
      [] OTHER -> "start"

\* line 186: read the global station state and enter the arm
ReadState ==
    /\ pc = "loop"
    /\ arm' = ArmOf(sta_state)
    /\ pc' = ArmOf(sta_state)
    /\ outcome' = "none"
    /\ UNCHANGED <<sta_state, ev_disc, num_failures, delay_ms, panic_at,
                   build, reliable, iters, connected_once, reset_after_backoff>>
    /\ UNCHANGED calls
    /\ UNCHANGED drops
    /\ UNCHANGED <<cfgVars, mainVars>>

\* 187-188: connect_async() returns Ok: the StaConnected event set the state
ConnectOk ==
    /\ pc = "connect"
    /\ sta_state' = "Connected"
    /\ ev_disc' = FALSE
    /\ outcome' = "ok"
    /\ connected_once' = TRUE
    /\ pc' = "backoff"
    /\ UNCHANGED <<arm, num_failures, delay_ms, panic_at, build, reliable, iters,
                   reset_after_backoff>>
    /\ calls' = Logged("connect")
    /\ UNCHANGED drops
    /\ UNCHANGED <<cfgVars, mainVars>>

\* 189-192: connect_async() returns Err: the counter grows by one. The radio
\* is left started, or disconnected (the StaDisconnected event that ended the
\* attempt).
ConnectErr ==
    /\ pc = "connect"
    /\ ~reliable
    /\ num_failures < MaxFailures
    /\ \E s \in {"Started", "Disconnected"} : sta_state' = s
    /\ ev_disc' = FALSE
    /\ num_failures' = saturating_add1(num_failures)
    /\ outcome' = "err"
    /\ pc' = "backoff"
    /\ UNCHANGED <<arm, delay_ms, panic_at, build, reliable, iters, connected_once,
                   reset_after_backoff>>
    /\ calls' = Logged("connect")
    /\ UNCHANGED drops
    /\ UNCHANGED <<cfgVars, mainVars>>

\* the Connected arm without the reset of line 195
ConnectedArm_NoReset ==
    /\ pc = "connected"
    /\ reset_after_backoff' = FALSE
    /\ ev_disc' = FALSE
    /\ pc' = "wait_event"
    /\ UNCHANGED <<sta_state, arm, outcome, num_failures, delay_ms, panic_at, build,
                   reliable, iters, connected_once>>
    /\ calls' = Logged("wait_for_event")
    /\ UNCHANGED drops
    /\ UNCHANGED <<cfgVars, mainVars>>

\* 195 and the entry of wait_for_event (196): the counter is reset, pending
\* StaDisconnected events are cleared and the task starts waiting
ConnectedArm ==
    /\ pc = "connected"
    /\ num_failures' = 0
    /\ reset_after_backoff' = (num_failures >= BackoffFreeFailures)
    /\ ev_disc' = FALSE
    /\ pc' = "wait_event"
    /\ UNCHANGED <<sta_state, arm, outcome, delay_ms, panic_at, build, reliable, iters,
                   connected_once>>
    /\ calls' = Logged("wait_for_event")
    /\ UNCHANGED drops
    /\ UNCHANGED <<cfgVars, mainVars>>

\* the completed wait counted as a failed attempt
WaitEventDone_CountsDisconnect ==
    /\ pc = "wait_event"
    /\ ev_disc
    /\ ev_disc' = FALSE
    /\ num_failures' = saturating_add1(num_failures)
    /\ outcome' = "ok"
    /\ pc' = "backoff"
    /\ UNCHANGED <<sta_state, arm, delay_ms, panic_at, build, reliable,
                   iters, connected_once, reset_after_backoff, calls, drops>>
    /\ UNCHANGED <<cfgVars, mainVars>>

\* 196: wait_for_event(StaDisconnected) resolves on the next event
WaitEventDone ==
    /\ pc = "wait_event"
    /\ ev_disc
    /\ ev_disc' = FALSE
    /\ outcome' = "ok"
    /\ pc' = "backoff"
    /\ UNCHANGED <<sta_state, arm, num_failures, delay_ms, panic_at, build, reliable,
                   iters, connected_once, reset_after_backoff>>
    /\ UNCHANGED calls
    /\ UNCHANGED drops
    /\ UNCHANGED <<cfgVars, mainVars>>

\* the restart going from disconnect straight to set_config
DisconnectOk_SkipsStop ==
    /\ pc = "disconnect"
    /\ pc' = "reconfig"
    /\ calls' = Logged("disconnect")
    /\ UNCHANGED <<sta_state, ev_disc, arm, outcome, num_failures, delay_ms, panic_at,
                   build, reliable, iters, connected_once, reset_after_backoff, drops>>
    /\ UNCHANGED <<cfgVars, mainVars>>

\* 204: controller.disconnect_async().await.unwrap()
DisconnectOk ==
    /\ pc = "disconnect"
    /\ pc' = "stop"
    /\ UNCHANGED <<sta_state, ev_disc, arm, outcome, num_failures, delay_ms, panic_at,
                   build, reliable, iters, connected_once, reset_after_backoff>>
    /\ calls' = Logged("disconnect")
    /\ UNCHANGED drops
    /\ UNCHANGED <<cfgVars, mainVars>>

DisconnectErr ==
    /\ pc = "disconnect"
    /\ ~reliable
    /\ Panic("disconnect")
    /\ outcome' = "err"
    /\ UNCHANGED <<sta_state, ev_disc, arm, num_failures, delay_ms,
                   build, reliable, iters, connected_once, reset_after_backoff>>
    /\ calls' = Logged("disconnect")
    /\ UNCHANGED drops
    /\ UNCHANGED <<cfgVars, mainVars>>

\* 205: controller.stop_async().await.unwrap()
StopOk ==
    /\ pc = "stop"
    /\ sta_state' = "Stopped"
    /\ pc' = "reconfig"
    /\ UNCHANGED <<ev_disc, arm, outcome, num_failures, delay_ms, panic_at,
                   build, reliable, iters, connected_once, reset_after_backoff>>
    /\ calls' = Logged("stop")
    /\ UNCHANGED drops
    /\ UNCHANGED <<cfgVars, mainVars>>

StopErr ==
    /\ pc = "stop"
    /\ ~reliable
    /\ Panic("stop")
    /\ outcome' = "err"
    /\ UNCHANGED <<sta_state, ev_disc, arm, num_failures, delay_ms,
                   build, reliable, iters, connected_once, reset_after_backoff>>
    /\ calls' = Logged("stop")
    /\ UNCHANGED drops
    /\ UNCHANGED <<cfgVars, mainVars>>

\* 206-208: controller.set_config(&client_config).expect(..)
ReconfigOk ==
    /\ pc = "reconfig"
    /\ outcome' = "ok"
    /\ pc' = "backoff"
    /\ UNCHANGED <<sta_state, ev_disc, arm, num_failures, delay_ms, panic_at,
                   build, reliable, iters, connected_once, reset_after_backoff>>
    /\ calls' = Logged("set_config")
    /\ UNCHANGED drops
    /\ UNCHANGED <<cfgVars, mainVars>>

ReconfigErr ==
    /\ pc = "reconfig"
    /\ ~reliable
    /\ Panic("set_config")
    /\ outcome' = "err"
    /\ UNCHANGED <<sta_state, ev_disc, arm, num_failures, delay_ms,
                   build, reliable, iters, connected_once, reset_after_backoff>>
    /\ calls' = Logged("set_config")
    /\ UNCHANGED drops
    /\ UNCHANGED <<cfgVars, mainVars>>

\* start_async() returning Ok without the radio becoming started
StartOk_StaysStopped ==
    /\ pc = "start"
    /\ outcome' = "ok"
    /\ pc' = "backoff"
    /\ UNCHANGED <<sta_state, ev_disc, arm, num_failures, delay_ms, panic_at,
                   build, reliable, iters, connected_once, reset_after_backoff>>
    /\ calls' = Logged("start")
    /\ UNCHANGED drops
    /\ UNCHANGED <<cfgVars, mainVars>>

\* 210-211: start_async() returns Ok
StartOk ==
    /\ pc = "start"
    /\ sta_state' = "Started"
    /\ outcome' = "ok"
    /\ pc' = "backoff"
    /\ UNCHANGED <<ev_disc, arm, num_failures, delay_ms, panic_at,
                   build, reliable, iters, connected_once, reset_after_backoff>>
    /\ calls' = Logged("start")
    /\ UNCHANGED drops
    /\ UNCHANGED <<cfgVars, mainVars>>

\* 212: start_async() returns Err, which is logged
StartErr ==
    /\ pc = "start"
    /\ ~reliable
    /\ outcome' = "err"
    /\ pc' = "backoff"
    /\ UNCHANGED <<sta_state, ev_disc, arm, num_failures, delay_ms, panic_at,
                   build, reliable, iters, connected_once, reset_after_backoff>>
    /\ calls' = Logged("start")
    /\ UNCHANGED drops
    /\ UNCHANGED <<cfgVars, mainVars>>

\* 218-222: compute the delay; sleep when it is positive; the iteration ends
\* here when it is zero
Backoff ==
    /\ pc = "backoff"
    /\ LET r == reconnect_backoff_ms(num_failures)
       IN IF r.panic
          THEN /\ Panic("backoff")
               /\ UNCHANGED <<delay_ms, iters>>
          ELSE /\ delay_ms' = r.ms
               /\ pc' = IF r.ms > 0 THEN "sleep" ELSE "loop"
               /\ iters' = IF r.ms > 0 THEN iters ELSE Min(iters + 1, MaxIters)
               /\ UNCHANGED panic_at
    /\ UNCHANGED <<sta_state, ev_disc, arm, outcome, num_failures,
                   build, reliable, connected_once, reset_after_backoff>>
    /\ UNCHANGED calls
    /\ UNCHANGED drops
    /\ UNCHANGED <<cfgVars, mainVars>>

\* 221: Timer::after_millis(..) elapses
SleepDone ==
    /\ pc = "sleep"
    /\ pc' = "loop"
    /\ iters' = Min(iters + 1, MaxIters)
    /\ UNCHANGED <<sta_state, ev_disc, arm, outcome, num_failures, delay_ms, panic_at,
                   build, reliable, connected_once, reset_after_backoff>>
    /\ UNCHANGED calls
    /\ UNCHANGED drops
    /\ UNCHANGED <<cfgVars, mainVars>>

\* the radio loses the association: the driver sets the global state and
\* raises StaDisconnected (the handler of line 243 only logs it)
RadioDrop ==
    /\ sta_state = "Connected"
    /\ sta_state' = "Disconnected"
    /\ ev_disc' = TRUE
    /\ UNCHANGED <<pc, arm, outcome, num_failures, delay_ms, panic_at,
                   build, reliable, iters, connected_once, reset_after_backoff>>
    /\ UNCHANGED calls
    /\ drops' = Min(drops + 1, MaxDrops)
    /\ UNCHANGED <<cfgVars, mainVars>>

SupervisorStep ==
    \/ SetConfigInitOk \/ SetConfigInitErr
    \/ ReadState
    \/ ConnectOk \/ ConnectErr
    \/ ConnectedArm \/ WaitEventDone
    \/ DisconnectOk \/ DisconnectErr
    \/ StopOk \/ StopErr
    \/ ReconfigOk \/ ReconfigErr
    \/ StartOk \/ StartErr
    \/ Backoff \/ SleepDone

NoRec == [none |-> TRUE]

EnvAllSet == [v \in {"SSID", "PASSWORD", "API_KEY"} |-> TRUE]

\* main before its first statement
MainAtEntry ==
    /\ main_pc = "env"
    /\ sup_args = "none"
    /\ net_spawned = FALSE
    /\ link_up = FALSE
    /\ v4 = FALSE
    /\ ip = FALSE
    /\ slept_ms = 0
    /\ trains = "none"

\* main after lines 100-104: the tasks are spawned, the link is down
MainAfterSpawn ==
    /\ main_pc = "link_poll"
    /\ env = EnvAllSet
    /\ sup_args = "build_time"
    /\ net_spawned = TRUE
    /\ link_up = FALSE
    /\ v4 = FALSE
    /\ ip = FALSE
    /\ slept_ms = 0
    /\ trains = "none"

Init ==
    /\ sta_state \in {"Invalid", "Stopped"}
    /\ ev_disc = FALSE
    /\ pc = "set_config_init"
    /\ arm = "none"
    /\ outcome = "none"
    /\ num_failures = 0
    /\ delay_ms = 0
    /\ panic_at = "none"
    /\ build \in {"debug", "release"}
    /\ reliable \in BOOLEAN
    /\ iters = 0
    /\ connected_once = FALSE
    /\ reset_after_backoff = FALSE
    /\ calls = <<>>
    /\ drops = 0
    /\ impl = "Config"
    /\ LEN = LenInComment
    /\ cfg = NoRec
    /\ flash = <<>>
    /\ res = [op |-> "none", val |-> "none", lens |-> <<>>]
    /\ written = NoRec
    /\ flips = 0
    /\ MainAfterSpawn

Next == SupervisorStep \/ RadioDrop

Spec == Init /\ [][Next]_vars

\* the executor keeps polling the supervisor task whenever it can run
LiveSpec == Init /\ [][Next]_vars /\ WF_vars(SupervisorStep)

\* ------------------------------------------------------------------------
\* Configuration records: WmataConfig (config.rs), Config (wmata/config.rs)
\* ------------------------------------------------------------------------
SSID_MAX_LEN == 32
PASS_MAX_LEN == 64
API_KEY_MAX_LEN == 32
CHECKSUM_SZ == 4
\* size_of::<Config>(): four u8 and three u8 arrays
CONFIG_STRUCT_SZ == 4 + SSID_MAX_LEN + PASS_MAX_LEN + API_KEY_MAX_LEN
CONFIG_SZ == CONFIG_STRUCT_SZ + CHECKSUM_SZ

Ok(rec) == [val |-> "Ok", rec |-> rec]
Err(e) == [val |-> e, rec |-> NoRec]

Pad(str, n) == str \o Zeros(n - Len(str))

\* the length check with every limit one too high
ArgsTooLong_OffByOne(sl, pl, kl) ==
    sl > SSID_MAX_LEN + 1 \/ pl > PASS_MAX_LEN + 1 \/ kl > API_KEY_MAX_LEN + 1

\* `if ssid_len > 32 || pass_len > 64 || api_key_len > 32` (config.rs:47,
\* wmata/config.rs:72)
ArgsTooLong(sl, pl, kl) == sl > SSID_MAX_LEN \/ pl > PASS_MAX_LEN \/ kl > API_KEY_MAX_LEN

\* WmataConfig::new: the fields are heapless strings; push_str(..).unwrap()
\* panics on a string beyond the capacity
WmataConfig_new(ssid, pass, api_key) ==
    IF ArgsTooLong(Len(ssid), Len(pass), Len(api_key)) THEN Err("BadArgs")
    ELSE IF Len(ssid) > 32 \/ Len(pass) > 64 \/ Len(api_key) > 32 THEN Err("Panic")
    ELSE Ok([version |-> 1, ssid_len |-> Len(ssid), pass_len |-> Len(pass),
             api_key_len |-> Len(api_key), ssid |-> ssid, pass |-> pass,
             api_key |-> api_key, crc |-> <<>>])

\* Config::new: the fields are zero-filled arrays; the slice copy panics on a
\* string beyond the array
Config_new(ssid, pass, api_key) ==
    IF ArgsTooLong(Len(ssid), Len(pass), Len(api_key)) THEN Err("BadArgs")
    ELSE IF Len(ssid) > SSID_MAX_LEN \/ Len(pass) > PASS_MAX_LEN
            \/ Len(api_key) > API_KEY_MAX_LEN THEN Err("Panic")
    ELSE Ok([version |-> 1, ssid_len |-> Len(ssid), pass_len |-> Len(pass),
             api_key_len |-> Len(api_key), ssid |-> Pad(ssid, SSID_MAX_LEN),
             pass |-> Pad(pass, PASS_MAX_LEN), api_key |-> Pad(api_key, API_KEY_MAX_LEN),
             crc |-> <<>>])

\* WmataConfig::to_bytes on a zeroed buffer of LEN bytes. copy_from_slice
\* panics unless the string fills its whole chunk (the TODO of line 102).
WmataConfig_to_bytes(rec) ==
    IF Len(rec.ssid) # 32 \/ Len(rec.pass) # 64 \/ Len(rec.api_key) # 32
    THEN [val |-> "Panic", bytes |-> <<>>]
    ELSE LET head == <<rec.version, rec.ssid_len, rec.pass_len, rec.api_key_len>>
             buf == Pad(head \o rec.ssid \o rec.pass \o rec.api_key, LEN)
             covered == SubSeq(buf, 1, LEN - 4)
         IN [val |-> "Ok", bytes |-> covered \o Crc32Le(covered)]

\* WmataConfig::from_bytes
WmataConfig_from_bytes(bytes) ==
    IF Len(bytes) < 4 + 32 + 64 + 32 + 4 THEN Err("BufferTooSmall")
    ELSE LET ssid_slice == SubSeq(bytes, 5, 36)
             pass_slice == SubSeq(bytes, 37, 100)
             api_key_slice == SubSeq(bytes, 101, 132)
             crc_slice == SubSeq(bytes, 133, 136)
         IN IF ~Utf8Valid(ssid_slice) THEN Err("Utf8")
            ELSE IF ~Utf8Valid(pass_slice) THEN Err("Utf8")
            ELSE IF ~Utf8Valid(api_key_slice) THEN Err("Utf8")
            ELSE IF Crc32Le(SubSeq(bytes, 1, LEN - 4)) # crc_slice THEN Err("BadChecksum")
            ELSE Ok([version |-> bytes[1], ssid_len |-> bytes[2], pass_len |-> bytes[3],
                     api_key_len |-> bytes[4], ssid |-> ssid_slice, pass |-> pass_slice,
                     api_key |-> api_key_slice, crc |-> crc_slice])

\* bincode's fixed-int encoding of Config: each u8 is one byte, each array its
\* bytes in order
Config_encode(rec) ==
    <<rec.version, rec.ssid_len, rec.pass_len, rec.api_key_len>>
        \o rec.ssid \o rec.pass \o rec.api_key

\* to_bytes with the checksum appended instead of prepended
Config_to_bytes_CrcLast(rec) ==
    LET payload == Config_encode(rec)
    IN [val |-> "Ok", bytes |-> Pad(payload, CONFIG_SZ - CHECKSUM_SZ) \o Crc32Le(payload)]

\* Config::to_bytes on a buffer of CONFIG_SZ bytes: the checksum is written
\* in front of the payload
Config_to_bytes(rec) ==
    LET payload == Config_encode(rec)
    IN IF Len(payload) > CONFIG_SZ - CHECKSUM_SZ
       THEN [val |-> "Encode", bytes |-> <<>>]
       ELSE [val |-> "Ok",
             bytes |-> Crc32Le(payload) \o Pad(payload, CONFIG_SZ - CHECKSUM_SZ)]

\* from_bytes that decodes without comparing the checksum
Config_from_bytes_Unchecked(bytes) ==
    LET payload == SubSeq(bytes, CHECKSUM_SZ + 1, Len(bytes))
    IN Ok([version |-> payload[1], ssid_len |-> payload[2],
           pass_len |-> payload[3], api_key_len |-> payload[4],
           ssid |-> SubSeq(payload, 5, 4 + SSID_MAX_LEN),
           pass |-> SubSeq(payload, 5 + SSID_MAX_LEN, 4 + SSID_MAX_LEN + PASS_MAX_LEN),
           api_key |-> SubSeq(payload, 5 + SSID_MAX_LEN + PASS_MAX_LEN, CONFIG_STRUCT_SZ),
           crc |-> <<>>])

\* Config::from_bytes
Config_from_bytes(bytes) ==
    IF Len(bytes) < CONFIG_SZ THEN Err("BufferTooSmall")
    ELSE LET crc32_bytes == SubSeq(bytes, 1, CHECKSUM_SZ)
             payload == SubSeq(bytes, CHECKSUM_SZ + 1, Len(bytes))
         IN IF crc32_bytes = Crc32Le(payload)
            THEN Ok([version |-> payload[1], ssid_len |-> payload[2],
                     pass_len |-> payload[3], api_key_len |-> payload[4],
                     ssid |-> SubSeq(payload, 5, 4 + SSID_MAX_LEN),
                     pass |-> SubSeq(payload, 5 + SSID_MAX_LEN, 4 + SSID_MAX_LEN + PASS_MAX_LEN),
                     api_key |-> SubSeq(payload, 5 + SSID_MAX_LEN + PASS_MAX_LEN,
                                        CONFIG_STRUCT_SZ),
                     crc |-> <<>>])
            ELSE Err("BadChecksum")

\* Config::ssid / pass / api_key: from_utf8(&field[..len]).unwrap()
Config_accessor(field, len) ==
    IF len > Len(field) THEN [panic |-> TRUE, str |-> <<>>]
    ELSE IF ~Utf8Valid(SubSeq(field, 1, len)) THEN [panic |-> TRUE, str |-> <<>>]
    ELSE [panic |-> FALSE, str |-> SubSeq(field, 1, len)]

\* WmataConfig::ssid / pass / api_key: self.field.as_str()
WmataConfig_accessor(field) == [panic |-> FALSE, str |-> field]

New(im, ssid, pass, api_key) ==
    IF im = "WmataConfig" THEN WmataConfig_new(ssid, pass, api_key)
    ELSE Config_new(ssid, pass, api_key)

ToBytes(im, rec) ==
    IF im = "WmataConfig" THEN WmataConfig_to_bytes(rec) ELSE Config_to_bytes(rec)

FromBytes(im, bytes) ==
    IF im = "WmataConfig" THEN WmataConfig_from_bytes(bytes) ELSE Config_from_bytes(bytes)

\* <<ssid(), pass(), api_key()>>
Accessors(im, rec) ==
    IF im = "WmataConfig"
    THEN <<WmataConfig_accessor(rec.ssid), WmataConfig_accessor(rec.pass),
           WmataConfig_accessor(rec.api_key)>>
    ELSE <<Config_accessor(rec.ssid, rec.ssid_len), Config_accessor(rec.pass, rec.pass_len),
           Config_accessor(rec.api_key, rec.api_key_len)>>

\* ---- inputs ----
Home == <<104, 111, 109, 101>>                        \* "home"
SecretPw == <<115, 101, 99, 114, 101, 116, 112, 119>>  \* "secretpw"
Key123 == <<107, 101, 121, 49, 50, 51>>                \* "key123"
Cafe == <<99, 97, 102, 195, 169>>                      \* "caf\u00e9"

\* the (ssid, pass, api_key) arguments tried: short, empty, non-ASCII, each
\* field at its maximum, and each field one byte beyond it
NewInputs ==
    { <<Home, SecretPw, Key123>>,
      <<<<>>, <<>>, <<>>>>,
      <<Cafe, SecretPw, Rep(99, API_KEY_MAX_LEN)>>,
      <<Rep(97, SSID_MAX_LEN), Rep(98, PASS_MAX_LEN), Rep(99, API_KEY_MAX_LEN)>>,
      <<Rep(97, SSID_MAX_LEN + 1), SecretPw, Key123>>,
      <<Home, Rep(98, PASS_MAX_LEN + 1), Key123>>,
      <<Home, SecretPw, Rep(99, API_KEY_MAX_LEN + 1)>> }

\* the bytes save writes and load reads: [0u8; LEN], [0u8; CONFIG_SZ]
BlockLen == IF impl = "WmataConfig" THEN LEN ELSE CONFIG_SZ

\* a payload of fields placed in the block with its checksum where to_bytes
\* of im puts it
Sealed(im, payload) ==
    IF im = "WmataConfig"
    THEN LET covered == Pad(payload, LEN - 4) IN covered \o Crc32Le(covered)
    ELSE Crc32Le(payload) \o payload

\* storage contents that no save of a record built by new produced
RawBlocks(im) ==
    { Zeros(BlockLen),
      Sealed(im, <<1, SSID_MAX_LEN + 1, 0, 0>> \o Zeros(CONFIG_STRUCT_SZ - 4)),
      Sealed(im, <<1, 1, 0, 0>> \o <<255>> \o Zeros(CONFIG_STRUCT_SZ - 5)),
      Sealed(im, <<1, 0, 0, 0>> \o Rep(0, SSID_MAX_LEN) \o Rep(120, PASS_MAX_LEN)
                   \o Rep(0, API_KEY_MAX_LEN)) }

\* bit b (0..7) of byte i flipped
FlipBit(bytes, i, b) ==
    [bytes EXCEPT ![i] = IF (bytes[i] \div (2 ^ b)) % 2 = 1
                         THEN bytes[i] - 2 ^ b ELSE bytes[i] + 2 ^ b]

Running == res.val # "Panic"

\* ---- operations ----
\* WmataConfig::new / Config::new
CfgNew(ssid, pass, api_key) ==
    /\ Running
    /\ flips = 0
    /\ LET r == New(impl, ssid, pass, api_key)
       IN /\ res' = [op |-> "new", val |-> r.val,
                     lens |-> <<Len(ssid), Len(pass), Len(api_key)>>]
          /\ cfg' = r.rec
    /\ UNCHANGED <<impl, LEN, flash, written, flips>>
    /\ UNCHANGED <<supVars, mainVars>>

\* save: to_bytes, then flash.write of the whole block
CfgSave ==
    /\ Running
    /\ flips = 0
    /\ cfg # NoRec
    /\ LET r == ToBytes(impl, cfg)
       IN IF r.val = "Ok"
          THEN /\ flash' = r.bytes
               /\ written' = cfg
               /\ res' = [op |-> "save", val |-> "Ok", lens |-> <<>>]
          ELSE /\ res' = [op |-> "save", val |-> r.val, lens |-> <<>>]
               /\ UNCHANGED <<flash, written>>
    /\ UNCHANGED <<impl, LEN, cfg, flips>>
    /\ UNCHANGED <<supVars, mainVars>>

\* save: flash.write returns an error
CfgSaveFlashErr ==
    /\ Running
    /\ flips = 0
    /\ cfg # NoRec
    /\ ToBytes(impl, cfg).val = "Ok"
    /\ res' = [op |-> "save", val |-> "Flash", lens |-> <<>>]
    /\ UNCHANGED <<impl, LEN, cfg, flash, written, flips>>
    /\ UNCHANGED <<supVars, mainVars>>

\* load: flash.read of the block, then from_bytes
CfgLoad ==
    /\ Running
    /\ res.op # "load"
    /\ LET r == FromBytes(impl, flash)
       IN /\ res' = [op |-> "load", val |-> r.val, lens |-> <<>>]
          /\ cfg' = r.rec
    /\ UNCHANGED <<impl, LEN, flash, written, flips>>
    /\ UNCHANGED <<supVars, mainVars>>

\* load: flash.read returns an error
CfgLoadFlashErr ==
    /\ Running
    /\ flips = 0
    /\ res.op # "load"
    /\ res' = [op |-> "load", val |-> "Flash", lens |-> <<>>]
    /\ cfg' = NoRec
    /\ UNCHANGED <<impl, LEN, flash, written, flips>>
    /\ UNCHANGED <<supVars, mainVars>>

\* ssid(), pass() and api_key() of the record in memory
CfgAccess ==
    /\ Running
    /\ cfg # NoRec
    /\ res.op # "access"
    /\ flips = 0 \/ res.op = "load"
    /\ res' = [op |-> "access",
               val |-> IF \E i \in 1..3 : Accessors(impl, cfg)[i].panic
                       THEN "Panic" ELSE "Ok",
               lens |-> <<>>]
    /\ UNCHANGED <<impl, LEN, cfg, flash, written, flips>>
    /\ UNCHANGED <<supVars, mainVars>>

\* the stored block is corrupted in one bit after a save
FlashFlipBit ==
    /\ res.op = "save"
    /\ res.val = "Ok"
    /\ flips = 0
    /\ \E i \in 1..Len(flash), b \in 0..7 : flash' = FlipBit(flash, i, b)
    /\ flips' = 1
    /\ UNCHANGED <<impl, LEN, cfg, res, written>>
    /\ UNCHANGED <<supVars, mainVars>>

\* the region holds something else: zeros, or a block sealed elsewhere
FlashSetRaw ==
    /\ res.op = "none"
    /\ written = NoRec
    /\ flash = Rep(255, BlockLen)
    /\ \E blk \in RawBlocks(impl) : flash' = blk
    /\ UNCHANGED <<impl, LEN, cfg, res, written, flips>>
    /\ UNCHANGED <<supVars, mainVars>>

CfgInit ==
    /\ sta_state = "Invalid"
    /\ ev_disc = FALSE
    /\ pc = "set_config_init"
    /\ arm = "none"
    /\ outcome = "none"
    /\ num_failures = 0
    /\ delay_ms = 0
    /\ panic_at = "none"
    /\ build = "release"
    /\ reliable = TRUE
    /\ iters = 0
    /\ connected_once = FALSE
    /\ reset_after_backoff = FALSE
    /\ calls = <<>>
    /\ drops = 0
    /\ impl \in {"WmataConfig", "Config"}
    /\ LEN \in (IF impl = "WmataConfig" THEN {LenInComment, LenReprC} ELSE {LenInComment})
    /\ cfg = NoRec
    /\ flash = Rep(255, BlockLen)
    /\ res = [op |-> "none", val |-> "none", lens |-> <<>>]
    /\ written = NoRec
    /\ flips = 0
    /\ env = EnvAllSet
    /\ MainAtEntry

CfgNext ==
    \/ \E a \in NewInputs : CfgNew(a[1], a[2], a[3])
    \/ CfgSave
    \/ CfgSaveFlashErr
    \/ CfgLoad
    \/ CfgLoadFlashErr
    \/ CfgAccess
    \/ FlashFlipBit
    \/ FlashSetRaw

CfgSpec == CfgInit /\ [][CfgNext]_vars

\* ------------------------------------------------------------------------
\* main (main.rs:49-154): boot, bring-up and the poll loop
\* ------------------------------------------------------------------------
\* the fixed poll interval of the bring-up loops (107, 116), of the link
\* re-check (130) and the period of the poll loop (152), in ms
BringupPollMs == 200
LinkRecheckMs == 1000
PollPeriodMs == 10000

\* a step of main that touches neither the supervisor nor the storage
MainOnly ==
    /\ UNCHANGED supVars
    /\ UNCHANGED cfgVars

\* 51-54: SSID.expect(..), PASSWORD.expect(..), API_KEY.expect(..)
MainEnvOk ==
    /\ main_pc = "env"
    /\ \A v \in DOMAIN env : env[v]
    /\ main_pc' = "init"
    /\ UNCHANGED <<env, sup_args, net_spawned, link_up, v4, ip, slept_ms, trains>>
    /\ MainOnly

MainEnvMissing ==
    /\ main_pc = "env"
    /\ \E v \in DOMAIN env : ~env[v]
    /\ main_pc' = "panicked"
    /\ UNCHANGED <<env, sup_args, net_spawned, link_up, v4, ip, slept_ms, trains>>
    /\ MainOnly

\* 56-98: clocks, heap, esp_radio::init().expect(..), wifi::new(..).expect(..),
\* the network stack
MainInitOk ==
    /\ main_pc = "init"
    /\ main_pc' = "spawn_supervisor"
    /\ UNCHANGED <<env, sup_args, net_spawned, link_up, v4, ip, slept_ms, trains>>
    /\ MainOnly

MainInitErr ==
    /\ main_pc = "init"
    /\ main_pc' = "panicked"
    /\ UNCHANGED <<env, sup_args, net_spawned, link_up, v4, ip, slept_ms, trains>>
    /\ MainOnly

\* 100-102: spawner.spawn(manage_connection(wifi_controller, ssid, password))
\* with the ssid and password of lines 51-53
SpawnSupervisor ==
    /\ main_pc = "spawn_supervisor"
    /\ pc = "unspawned"
    /\ pc' = "set_config_init"
    /\ sup_args' = "build_time"
    /\ main_pc' = "spawn_net"
    /\ UNCHANGED <<env, net_spawned, link_up, v4, ip, slept_ms, trains>>
    /\ UNCHANGED <<sta_state, ev_disc, arm, outcome, num_failures, delay_ms, panic_at,
                   build, reliable, iters, connected_once, reset_after_backoff, calls, drops>>
    /\ UNCHANGED cfgVars

\* 103: spawner.spawn(net_task(runner))
SpawnNet ==
    /\ main_pc = "spawn_net"
    /\ net_spawned' = TRUE
    /\ main_pc' = "handlers"
    /\ UNCHANGED <<env, sup_args, link_up, v4, ip, slept_ms, trains>>
    /\ MainOnly

\* 104: init_wifi_handlers()
InitWifiHandlers ==
    /\ main_pc = "handlers"
    /\ main_pc' = "link_poll"
    /\ UNCHANGED <<env, sup_args, net_spawned, link_up, v4, ip, slept_ms, trains>>
    /\ MainOnly

\* 106, 110: while !stack.is_link_up(); on leaving the loop, let mut ip = None
LinkPoll ==
    /\ main_pc = "link_poll"
    /\ IF link_up
       THEN /\ main_pc' = "ip_poll"
            /\ ip' = FALSE
       ELSE /\ main_pc' = "link_sleep"
            /\ UNCHANGED ip
    /\ UNCHANGED <<env, sup_args, net_spawned, link_up, v4, slept_ms, trains>>
    /\ MainOnly

\* 107: Timer::after_millis(200).await
LinkSleepDone ==
    /\ main_pc = "link_sleep"
    /\ slept_ms' = BringupPollMs
    /\ main_pc' = "link_poll"
    /\ UNCHANGED <<env, sup_args, net_spawned, link_up, v4, ip, trains>>
    /\ MainOnly

\* 112-115: if let Some(cfg) = stack.config_v4() { ip = Some(cfg.address) }
IpPoll ==
    /\ main_pc = "ip_poll"
    /\ ip' = v4
    /\ main_pc' = "ip_sleep"
    /\ UNCHANGED <<env, sup_args, net_spawned, link_up, v4, slept_ms, trains>>
    /\ MainOnly

\* 116 and the loop condition of 111: the timer elapses, then ip.is_none()
IpSleepDone ==
    /\ main_pc = "ip_sleep"
    /\ slept_ms' = BringupPollMs
    /\ main_pc' = IF ip THEN "client" ELSE "ip_poll"
    /\ UNCHANGED <<env, sup_args, net_spawned, link_up, v4, ip, trains>>
    /\ MainOnly

\* 119-125: TcpClient, DnsSocket, HttpClient, Client::new
CreateClient ==
    /\ main_pc = "client"
    /\ main_pc' = "poll_link"
    /\ UNCHANGED <<env, sup_args, net_spawned, link_up, v4, ip, slept_ms, trains>>
    /\ MainOnly

\* 129: while !stack.is_link_up()
PollLink ==
    /\ main_pc = "poll_link"
    /\ main_pc' = IF link_up THEN "fetch" ELSE "poll_link_sleep"
    /\ UNCHANGED <<env, sup_args, net_spawned, link_up, v4, ip, slept_ms, trains>>
    /\ MainOnly

\* 130: Timer::after_millis(1000).await
PollLinkSleepDone ==
    /\ main_pc = "poll_link_sleep"
    /\ slept_ms' = LinkRecheckMs
    /\ main_pc' = "poll_link"
    /\ UNCHANGED <<env, sup_args, net_spawned, link_up, v4, ip, trains>>
    /\ MainOnly

\* 133-150: client.next_trains(..).await, logged either way
Fetch ==
    /\ main_pc = "fetch"
    /\ \E r \in {"Ok", "Err"} : trains' = r
    /\ main_pc' = "poll_sleep"
    /\ UNCHANGED <<env, sup_args, net_spawned, link_up, v4, ip, slept_ms>>
    /\ MainOnly

\* 152: Timer::after_secs(10).await
PollSleepDone ==
    /\ main_pc = "poll_sleep"
    /\ slept_ms' = PollPeriodMs
    /\ main_pc' = "poll_link"
    /\ UNCHANGED <<env, sup_args, net_spawned, link_up, v4, ip, trains>>
    /\ MainOnly

\* net_task (226-229) runs the stack, which follows the link of the device
\* and runs DHCP. The link can come up once the supervisor drives the radio.
NetLinkUp ==
    /\ net_spawned
    /\ pc # "unspawned"
    /\ main_pc # "panicked"
    /\ ~link_up
    /\ link_up' = TRUE
    /\ UNCHANGED <<main_pc, env, sup_args, net_spawned, v4, ip, slept_ms, trains>>
    /\ MainOnly

\* the link goes down; the stack drops the DHCP configuration with it
NetLinkDown ==
    /\ link_up
    /\ link_up' = FALSE
    /\ v4' = FALSE
    /\ UNCHANGED <<main_pc, env, sup_args, net_spawned, ip, slept_ms, trains>>
    /\ MainOnly

\* DHCP assigns an address while the link is up
DhcpConfigured ==
    /\ net_spawned
    /\ link_up
    /\ ~v4
    /\ v4' = TRUE
    /\ UNCHANGED <<main_pc, env, sup_args, net_spawned, link_up, ip, slept_ms, trains>>
    /\ MainOnly

MainStep ==
    \/ MainEnvOk \/ MainEnvMissing
    \/ MainInitOk \/ MainInitErr
    \/ SpawnSupervisor \/ SpawnNet \/ InitWifiHandlers
    \/ LinkPoll \/ LinkSleepDone
    \/ IpPoll \/ IpSleepDone
    \/ CreateClient
    \/ PollLink \/ PollLinkSleepDone
    \/ Fetch \/ PollSleepDone

\* a record saved by an earlier run of the device
StoredRecord(im) ==
    New(im, Rep(97, SSID_MAX_LEN), Rep(98, PASS_MAX_LEN), Rep(99, API_KEY_MAX_LEN)).rec

\* power-on: main at its entry, the supervisor not spawned, the flash erased
\* or holding a saved record
BootInit ==
    /\ sta_state = "Invalid"
    /\ ev_disc = FALSE
    /\ pc = "unspawned"
    /\ arm = "none"
    /\ outcome = "none"
    /\ num_failures = 0
    /\ delay_ms = 0
    /\ panic_at = "none"
    /\ build = "release"
    /\ reliable = TRUE
    /\ iters = 0
    /\ connected_once = FALSE
    /\ reset_after_backoff = FALSE
    /\ calls = <<>>
    /\ drops = 0
    /\ impl \in {"WmataConfig", "Config"}
    /\ LEN \in (IF impl = "WmataConfig" THEN {LenInComment, LenReprC} ELSE {LenInComment})
    /\ cfg = NoRec
    /\ \E stored \in BOOLEAN :
          /\ flash = IF stored THEN ToBytes(impl, StoredRecord(impl)).bytes
                     ELSE Rep(255, BlockLen)
          /\ written = IF stored THEN StoredRecord(impl) ELSE NoRec
    /\ res = [op |-> "none", val |-> "none", lens |-> <<>>]
    /\ flips = 0
    /\ env \in [{"SSID", "PASSWORD", "API_KEY"} -> BOOLEAN]
    /\ MainAtEntry

BootNext == MainStep \/ NetLinkUp \/ NetLinkDown \/ DhcpConfigured

BootSpec == BootInit /\ [][BootNext]_vars


\* ------------------------------------------------------------------------
\* Properties of the supervisor
\* ------------------------------------------------------------------------

\* C1: with a radio whose calls always succeed, starting from Stopped (or the
\* driver's initial Invalid), connect_async has succeeded by the end of the
\* second loop iteration (start, then connect).
C1_ConnectedWithinTwoIterations == (reliable /\ iters >= 2) => connected_once

C1_Witness ==
    /\ reliable
    /\ iters = 2
    /\ connected_once
    /\ sta_state = "Connected"
    /\ arm = "connect"

\* C2: once the supervisor is in its Connected arm and the radio has
\* disconnected, a new connect attempt is eventually issued (radio calls
\* succeed, the supervisor task is scheduled fairly).
C2_DisconnectLeadsToConnect ==
    (reliable /\ arm = "connected" /\ pc \in {"connected", "wait_event"}
        /\ sta_state = "Disconnected")
      ~> (pc = "connect")

\* C3: no error of a radio operation inside the loop (disconnect, stop,
\* re-applying the configuration, start, connect) ends the supervisor task.
C3_NoFatalRadioError ==
    ~(pc = "panicked" /\ panic_at \in {"disconnect", "stop", "set_config"})

\* C4: for the value f of the failure counter, delay(f) is computed and is 0
\* for f in {0,1,2}, delay(f) <= delay(f+1), and delay(f) <= 10000 ms.
C4_BackoffContract ==
    LET d == reconnect_backoff_ms(num_failures)
        d1 == reconnect_backoff_ms(saturating_add1(num_failures))
    IN /\ ~d.panic
       /\ ~d1.panic
       /\ (num_failures \in {0, 1, 2} => d.ms = 0)
       /\ d.ms <= d1.ms
       /\ d.ms <= DELAY_MAX_MS

LastCalls(n) == SubSeq(calls, Len(calls) - n + 1, Len(calls))

\* C14: having observed Disconnected, the supervisor calls disconnect, then
\* stop, then set_config, with no other call in between, which leaves the
\* radio Stopped; the call after that set_config is start, issued with the
\* radio Stopped; stop and the re-applied configuration occur nowhere else.
C14_RestartOrder ==
    /\ \A i \in 1..(Len(calls) - 1) :
          /\ calls[i] = "disconnect" => calls[i + 1] = "stop"
          /\ calls[i] = "stop" => calls[i + 1] = "set_config"
          /\ calls[i] = "set_config" => calls[i + 1] = "start"
          /\ calls[i + 1] = "stop" => calls[i] = "disconnect"
          /\ calls[i + 1] = "set_config" => calls[i] = "stop"
    /\ (arm = "disconnect" /\ pc = "stop") => LastCalls(1) = <<"disconnect">>
    /\ (arm = "disconnect" /\ pc = "reconfig")
         => (LastCalls(2) = <<"disconnect", "stop">> /\ sta_state = "Stopped")
    /\ (arm = "disconnect" /\ pc \in {"backoff", "sleep", "loop"})
         => (LastCalls(3) = <<"disconnect", "stop", "set_config">> /\ sta_state = "Stopped")
    /\ (pc = "start" /\ Len(calls) > 1 /\ LastCalls(1) = <<"set_config">>)
         => sta_state = "Stopped"
    /\ (pc = "connect") => (calls # <<>> /\ LastCalls(1)[1] \in {"start", "connect", "wait_for_event"})

C14_Witness ==
    /\ Len(calls) >= 4
    /\ LastCalls(4) = <<"disconnect", "stop", "set_config", "start">>
    /\ arm = "start"
    /\ outcome = "ok"
    /\ sta_state = "Started"
    /\ drops >= 1

\* order of two u32 given as halves
U32Leq(a, b) == a[1] < b[1] \/ (a[1] = b[1] /\ a[2] <= b[2])
U32Max == <<LimbBase - 1, LimbBase - 1>>
\* values of the counter around every carry and around u32::MAX
U32Edge ==
    { <<h, l>> : h \in {0, 1, 32767, 32768, LimbBase - 2, LimbBase - 1},
                 l \in {0, 1, 2, LimbBase - 2, LimbBase - 1} }

\* C15: a failed connect attempt raises the counter by exactly one and
\* leaves the radio not connected; the counter changes in no step other than
\* a failed connect (+1) and the reset to 0 of the Connected arm; the
\* addition never yields a smaller value and stays at u32::MAX once there.
C15_CounterDiscipline ==
    [][ /\ (pc = "connect" /\ outcome' = "err")
             => /\ num_failures' = num_failures + 1
                /\ sta_state' # "Connected"
                /\ U32Halves(num_failures') = U32SaturatingAdd1(U32Halves(num_failures))
        /\ (num_failures' # num_failures)
             => \/ pc = "connect" /\ outcome' = "err" /\ num_failures' > num_failures
                \/ pc = "connected" /\ pc' = "wait_event" /\ num_failures' = 0
        /\ \A h \in U32Edge :
              /\ U32Leq(h, U32SaturatingAdd1(h))
              /\ (h = U32Max) => (U32SaturatingAdd1(h) = U32Max)
              /\ (h # U32Max) => /\ U32SaturatingAdd1(h) # h
                                 /\ \/ U32SaturatingAdd1(h) = <<h[1], h[2] + 1>>
                                    \/ (h[2] = LimbBase - 1 /\ U32SaturatingAdd1(h) = <<h[1] + 1, 0>>)
      ]_vars

C15_Witness ==
    /\ pc = "backoff"
    /\ arm = "connect"
    /\ outcome = "err"
    /\ num_failures = 4
    /\ sta_state = "Disconnected"
    /\ LastCalls(2) = <<"connect", "connect">>

\* C17: the supervisor is never waiting for the StaDisconnected event while
\* the radio is already disconnected and no event is pending (none will come:
\* only a connected radio raises it).
C17_NoMissedDisconnect ==
    ~(pc = "wait_event" /\ sta_state = "Disconnected" /\ ~ev_disc)

\* C18: in the iteration in which connect_async returned Ok the delay computed
\* at the end of the iteration is 0 ms and the task does not sleep.
C18_NoDelayAfterSuccessfulConnect ==
    /\ (arm = "connect" /\ outcome = "ok" /\ pc \in {"sleep", "loop"}) => delay_ms = 0
    /\ (arm = "connect" /\ outcome = "ok") => pc \notin {"sleep", "panicked"}

\* ------------------------------------------------------------------------
\* Properties of the configuration store
\* ------------------------------------------------------------------------
BuiltByNew(im, rec) == \E a \in NewInputs : New(im, a[1], a[2], a[3]) = Ok(rec)

\* what ssid(), pass() and api_key() yield for a record
Strings(im, rec) == [i \in 1..3 |-> Accessors(im, rec)[i]]

\* C6: a record built by new is saved without failure (flash errors apart),
\* and a load of the block it wrote returns Ok with the same version, ssid,
\* pass and api_key.
C6_RoundTrip ==
    /\ (res.op = "save" /\ BuiltByNew(impl, cfg)) => res.val \in {"Ok", "Flash"}
    /\ (res.op = "load" /\ res.val # "Flash" /\ flips = 0 /\ written # NoRec
            /\ BuiltByNew(impl, written))
         => /\ res.val = "Ok"
            /\ cfg.version = written.version
            /\ Strings(impl, cfg) = Strings(impl, written)
            /\ \A i \in 1..3 : ~Strings(impl, cfg)[i].panic

\* C7 (as stated): load of a saved block with one bit flipped fails with
\* BadChecksum.
C7_FlipGivesBadChecksum ==
    (res.op = "load" /\ flips = 1) => res.val = "BadChecksum"

\* C7 (amended): load of a saved block with one bit flipped never returns Ok.
\* Config::from_bytes fails with BadChecksum; WmataConfig::from_bytes fails
\* with BadChecksum, or with Utf8 when the flip left a string field that is
\* not valid UTF-8 (it decodes the strings before it compares the checksum).
C7_FlipMakesLoadFail ==
    (res.op = "load" /\ flips = 1)
      => /\ cfg = NoRec
         /\ \/ res.val = "BadChecksum"
            \/ /\ impl = "WmataConfig"
               /\ res.val = "Utf8"
               /\ \/ ~Utf8Valid(SubSeq(flash, 5, 36))
                  \/ ~Utf8Valid(SubSeq(flash, 37, 100))
                  \/ ~Utf8Valid(SubSeq(flash, 101, 132))

C7_Witness ==
    /\ res.op = "load"
    /\ flips = 1
    /\ impl = "Config"
    /\ res.val = "BadChecksum"
    /\ BuiltByNew(impl, written)
    /\ written.ssid_len = Len(Home)
    /\ flash[9] # Home[1]

\* C8: new with an ssid of 33 bytes, a pass of 65 bytes or an api_key of 33
\* bytes returns BadArgs, yields no record and leaves the storage as it was.
C8_OversizedRejected ==
    [][ (res'.op = "new" /\ (res'.lens[1] > SSID_MAX_LEN \/ res'.lens[2] > PASS_MAX_LEN
                               \/ res'.lens[3] > API_KEY_MAX_LEN))
          => (res'.val = "BadArgs" /\ cfg' = NoRec /\ flash' = flash /\ written' = written)
      ]_vars

C8_Witness ==
    /\ res.op = "new"
    /\ res.val = "BadArgs"
    /\ res.lens[2] = PASS_MAX_LEN + 1
    /\ cfg = NoRec
    /\ written # NoRec
    /\ flash = ToBytes(impl, written).bytes

\* C9: every record load returns as Ok has its three lengths within the
\* limits and strings that are valid UTF-8, and its accessors do not fail.
C9_LoadedRecordWellFormed ==
    (res.op = "load" /\ res.val = "Ok")
      => /\ cfg.ssid_len <= SSID_MAX_LEN
         /\ cfg.pass_len <= PASS_MAX_LEN
         /\ cfg.api_key_len <= API_KEY_MAX_LEN
         /\ \A i \in 1..3 : /\ ~Strings(impl, cfg)[i].panic
                            /\ Utf8Valid(Strings(impl, cfg)[i].str)

\* the fields of rec at offset off of the block: version, the three lengths,
\* then ssid(32), pass(64) and api_key(32), each zero-padded
FieldsAt(blk, off, rec) ==
    /\ blk[off + 1] = rec.version
    /\ blk[off + 2] = rec.ssid_len
    /\ blk[off + 3] = rec.pass_len
    /\ blk[off + 4] = rec.api_key_len
    /\ \A i \in 1..32 : blk[off + 4 + i] = IF i <= Len(rec.ssid) THEN rec.ssid[i] ELSE 0
    /\ \A i \in 1..64 : blk[off + 36 + i] = IF i <= Len(rec.pass) THEN rec.pass[i] ELSE 0
    /\ \A i \in 1..32 : blk[off + 100 + i] = IF i <= Len(rec.api_key) THEN rec.api_key[i] ELSE 0

\* the checksum in the last four bytes, over all bytes before it
CrcTrailing(blk) == SubSeq(blk, Len(blk) - 3, Len(blk)) = Crc32Le(SubSeq(blk, 1, Len(blk) - 4))
\* the checksum in the first four bytes, over all bytes after it
CrcLeading(blk) == SubSeq(blk, 1, 4) = Crc32Le(SubSeq(blk, 5, Len(blk)))

C12_AllZeroIsBadChecksum ==
    (res.op = "load" /\ res.val # "Flash" /\ flash = Zeros(BlockLen))
      => (res.val = "BadChecksum" /\ cfg = NoRec)

C12_Witness ==
    /\ res.op = "load"
    /\ res.val = "BadChecksum"
    /\ cfg = NoRec
    /\ written = NoRec
    /\ Len(flash) = BlockLen
    /\ \A i \in 1..Len(flash) : flash[i] = 0

\* ------------------------------------------------------------------------
\* Properties of main
\* ------------------------------------------------------------------------

\* C11: once the supervisor or the network task is spawned, the storage has
\* been loaded, and saved if the load failed; no load or save happens after
\* the spawn; the supervisor got the stored credentials if the load
\* succeeded and the build-time ones otherwise.
C11_ConfigLoadedBeforeSpawn ==
    (pc # "unspawned" \/ net_spawned)
      => /\ res.op \in {"load", "save"}
         /\ (res.op = "load") => (res.val = "Ok" /\ sup_args = "stored")
         /\ (res.op = "save") => (sup_args = "build_time")

\* C16: main sleeps 200 ms between the polls of the bring-up, polls the
\* address only after it has seen the link up, and at the step in which it
\* leaves the bring-up to create the client the link is up and an IPv4
\* address is assigned.
C16_LinkAndAddressWhenProceeding ==
    [][ /\ (main_pc \in {"link_sleep", "ip_sleep"} /\ main_pc' # main_pc)
             => slept_ms' = BringupPollMs
        /\ (main_pc = "link_poll" /\ main_pc' = "ip_poll") => link_up
        /\ (main_pc = "ip_sleep" /\ main_pc' = "client") => (ip /\ link_up /\ v4)
      ]_vars

====
